---------------------------- MODULE Spec2Model ----------------------------
(***************************************************************************)
(* A model of scripts/performance/db-analysis/psql_timeout_runner.py:      *)
(* the argument-vector builder (sanitize_dsn, build_psql_command) and the  *)
(* bounded process supervisor (main: Popen, wait(timeout), kill).          *)
(*                                                                         *)
(* Strings that the program only forwards (host, user, SQL text ...) are   *)
(* TLA+ strings.  A connection string is parsed by the program, so it is a *)
(* sequence of one-character strings and is turned into a token by Join.   *)
(* An optional value (argparse leaves an option that was not given at      *)
(* None) is <<>> for None and <<v>> for the value v.                       *)
(***************************************************************************)
EXTENDS Integers, Sequences, FiniteSets, TLC

(***************************************************************************)
(* Bounds of the model.                                                    *)
(***************************************************************************)
\* Every connection string of at most this many characters is an input.
MaxDsnLen == 3
\* The child's own exit codes are 0 .. MaxChildCode, plus the two codes the
\* supervisor also uses, plus death by a signal.
MaxChildCode == 3

(***************************************************************************)
(* Program constants.                                                      *)
(***************************************************************************)
EXIT_NOT_FOUND == 127
EXIT_TIMEOUT == 124
\* argparse's parser.error() ends the program with status 2.
EXIT_USAGE == 2
\* --timeout, when not given.
DEFAULT_TIMEOUT == 30
\* Popen.returncode of a child that died of SIGKILL.
KILLED_RETURNCODE == -9

None == <<>>
Some(v) == <<v>>

(***************************************************************************)
(* Python truthiness of an optional string, integer, character sequence.   *)
(***************************************************************************)
TruthyStr(o) == o # None /\ o[1] # ""
TruthyInt(o) == o # None /\ o[1] # 0
TruthySeq(o) == o # None /\ o[1] # <<>>

(***************************************************************************)
(* Characters of connection strings.                                      *)
(***************************************************************************)
DsnAlphabet == {"a", ":", "/", "?", "#"}
Letters == {"a", "A"}
\* urllib.parse.scheme_chars, restricted to the characters used here.
SchemeChars == {"a", "A"}
Lower(c) == IF c = "A" THEN "a" ELSE c
LowerSeq(s) == [k \in 1..Len(s) |-> Lower(s[k])]

\* str.find: the first position of c in s at or after from, 0 when there is none.
Find(s, cs, from) ==
    LET hits == {k \in from..Len(s) : s[k] \in cs}
    IN IF hits = {} THEN 0 ELSE CHOOSE k \in hits : \A j \in hits : k <= j

Drop(s, n) == SubSeq(s, n + 1, Len(s))
Take(s, n) == SubSeq(s, 1, n)

\* The character sequence as one token.
RECURSIVE Join(_)
Join(s) == IF s = <<>> THEN "" ELSE s[1] \o Join(Tail(s))

(***************************************************************************)
(* urllib.parse.urlsplit: scheme, netloc, path, query, fragment.           *)
(***************************************************************************)
urlsplit(url) ==
    LET i == Find(url, {":"}, 1)
        hasScheme == /\ i > 1
                     /\ url[1] \in Letters
                     /\ \A k \in 1..(i - 1) : url[k] \in SchemeChars
        scheme == IF hasScheme THEN LowerSeq(Take(url, i - 1)) ELSE <<>>
        r1 == IF hasScheme THEN Drop(url, i) ELSE url
        hasNetloc == Len(r1) >= 2 /\ r1[1] = "/" /\ r1[2] = "/"
        d == Find(r1, {"/", "?", "#"}, 3)
        delim == IF d = 0 THEN Len(r1) + 1 ELSE d
        netloc == IF hasNetloc THEN SubSeq(r1, 3, delim - 1) ELSE <<>>
        r2 == IF hasNetloc THEN Drop(r1, delim - 1) ELSE r1
        h == Find(r2, {"#"}, 1)
        fragment == IF h > 0 THEN Drop(r2, h) ELSE <<>>
        r3 == IF h > 0 THEN Take(r2, h - 1) ELSE r2
        q == Find(r3, {"?"}, 1)
        query == IF q > 0 THEN Drop(r3, q) ELSE <<>>
        path == IF q > 0 THEN Take(r3, q - 1) ELSE r3
    IN [scheme |-> scheme, netloc |-> netloc, path |-> path,
        query |-> query, fragment |-> fragment]

(***************************************************************************)
(* urllib.parse.urlunsplit.  No scheme used here is in uses_netloc (as     *)
(* postgres and postgresql are not), so "//" is written only before a      *)
(* non-empty netloc.                                                       *)
(***************************************************************************)
urlunsplit(scheme, netloc, path, query, fragment) ==
    LET u1 == IF netloc # <<>>
              THEN <<"/", "/">> \o netloc
                     \o (IF path # <<>> /\ path[1] # "/" THEN <<"/">> ELSE <<>>)
                     \o path
              ELSE path
        u2 == IF scheme # <<>> THEN scheme \o <<":">> \o u1 ELSE u1
        u3 == IF query # <<>> THEN u2 \o <<"?">> \o query ELSE u2
    IN IF fragment # <<>> THEN u3 \o <<"#">> \o fragment ELSE u3

sanitize_dsn(dsn) ==
    IF ~TruthySeq(dsn) THEN dsn
    ELSE LET parsed == urlsplit(dsn[1])
         IN IF parsed.query = <<>> THEN dsn
            ELSE Some(urlunsplit(parsed.scheme, parsed.netloc, parsed.path,
                                 <<>>, parsed.fragment))

(***************************************************************************)
(* build_psql_command: the argument vector, without the pager argument.    *)
(***************************************************************************)
build_psql_command(a) ==
    LET dsn == sanitize_dsn(a.dsn)
        conn == IF TruthySeq(dsn)
                THEN <<Join(dsn[1])>>
                ELSE (IF TruthyStr(a.host) THEN <<"-h", a.host[1]>> ELSE <<>>)
                  \o (IF TruthyInt(a.port) THEN <<"-p", ToString(a.port[1])>> ELSE <<>>)
                  \o (IF TruthyStr(a.username) THEN <<"-U", a.username[1]>> ELSE <<>>)
                  \o (IF TruthyStr(a.database) THEN <<"-d", a.database[1]>> ELSE <<>>)
        stop == IF a.on_error_stop THEN <<"-v", "ON_ERROR_STOP=1">> ELSE <<>>
        source == IF TruthyStr(a.command) THEN <<"-c", a.command[1]>>
                  ELSE IF TruthyStr(a.file) THEN <<"-f", a.file[1]>>
                  ELSE <<>>
    IN <<"psql", "-X">> \o conn \o stop \o source

(***************************************************************************)
(* The messages main writes to the error stream.                          *)
(***************************************************************************)
UsageMsg == "Either --command or --file must be provided."
NotFoundMsg == "psql executable not found. Please install PostgreSQL client tools."
TimeoutMsg(t) == "psql command timed out after " \o ToString(t) \o " seconds"

(***************************************************************************)
(* The state of one run.                                                   *)
(*   args        the namespace parse_args returned                         *)
(*   environ     the environment of the calling process                    *)
(*   psqlOnPath  whether the launch can locate the psql executable         *)
(*   pc          the statement of main that runs next                      *)
(*   env         the environment built for the child                       *)
(*   command     the argument vector built for the child                   *)
(*   child       none | running | zombie (exited, not waited for) | reaped *)
(*   childCode   the returncode of the child once it has exited            *)
(*   signalled   the signal main has sent to the child                     *)
(*   timerFired  whether the deadline of wait(timeout) has passed          *)
(*   expired     whether wait raised TimeoutExpired                        *)
(*   calls       the subprocess calls main has made, in order              *)
(*   stderr      the lines main has written to the error stream            *)
(*   result      the value main returned                                   *)
(*   systemExit  the status of a SystemExit raised inside main             *)
(***************************************************************************)
VARIABLES args, environ, psqlOnPath, pc, env, command, child, childCode,
          signalled, timerFired, expired, calls, stderr, result, systemExit

vars == <<args, environ, psqlOnPath, pc, env, command, child, childCode,
          signalled, timerFired, expired, calls, stderr, result, systemExit>>

inputs == <<args, environ, psqlOnPath>>

\* Every character sequence over DsnAlphabet of length at most n.
RECURSIVE DsnStrings(_)
DsnStrings(n) ==
    IF n = 0 THEN {<<>>}
    ELSE LET shorter == DsnStrings(n - 1)
         IN shorter \cup {Append(s, c) : s \in {t \in shorter : Len(t) = n - 1},
                                         c \in DsnAlphabet}

\* postgres://user@host/db?sslmode=require#f and its upper-case-scheme form,
\* one character per component.
DsnSamples ==
    { <<"a", ":", "/", "/", "a", "/", "a", "?", "a", "#", "a">>,
      <<"A", ":", "/", "/", "a", "/", "a", "?", "a">>,
      <<"a", ":", "/", "/", "a", "/", "a">> }

Environs ==
    { {<<"PATH", "/usr/bin">>},
      {<<"PATH", "/usr/bin">>, <<"PGPASSWORD", "ambient">>} }

\* The exit codes a child can end with by itself.
ChildCodes == (0..MaxChildCode) \cup {EXIT_TIMEOUT, EXIT_NOT_FOUND}

Start ==
    /\ pc = "validate"
    /\ env = {}
    /\ command = <<>>
    /\ child = "none"
    /\ childCode = None
    /\ signalled = "none"
    /\ timerFired = FALSE
    /\ expired = FALSE
    /\ calls = <<>>
    /\ stderr = <<>>
    /\ result = None
    /\ systemExit = None

\* The runs of the supervisor: a few argument vectors, every outcome of the child.
Init ==
    /\ args \in [ dsn : {None, Some(<<"a", ":", "/", "/", "a", "/", "a", "?", "a">>)},
                  host : {Some("localhost")},
                  port : {None},
                  username : {None},
                  database : {None},
                  password : {None, Some("secret")},
                  timeout : {0, 1, DEFAULT_TIMEOUT},
                  command : {None, Some(""), Some("SELECT 1")},
                  file : {None, Some("q.sql")},
                  no_pager : BOOLEAN,
                  on_error_stop : BOOLEAN ]
    /\ environ \in Environs
    /\ psqlOnPath \in BOOLEAN
    /\ Start

\* The runs of the builder: every short connection string, every field given,
\* given empty (or zero) and not given.
BuildInit ==
    /\ args \in [ dsn : {None} \cup {Some(s) : s \in DsnStrings(MaxDsnLen) \cup DsnSamples},
                  host : {None, Some(""), Some("localhost")},
                  port : {None, Some(0), Some(5433)},
                  username : {None, Some("alice")},
                  database : {None, Some("mydb")},
                  password : {None},
                  timeout : {DEFAULT_TIMEOUT},
                  command : {None, Some(""), Some("SELECT 1")},
                  file : {None, Some("q.sql")},
                  no_pager : BOOLEAN,
                  on_error_stop : BOOLEAN ]
    /\ environ \in {{<<"PATH", "/usr/bin">>}}
    /\ psqlOnPath = TRUE
    /\ Start

(***************************************************************************)
(* main, one action per statement.                                         *)
(***************************************************************************)
\* Lines 68-69 without the check: every run goes on.
Validate_NoCheck ==
    /\ pc = "validate"
    /\ pc' = "env"
    /\ UNCHANGED <<inputs, env, command, child, childCode, signalled,
                   timerFired, expired, calls, stderr, result, systemExit>>

\* Lines 68-69 rejecting both sources given together, as well as neither.
Validate_ExactlyOne ==
    /\ pc = "validate"
    /\ IF TruthyStr(args.command) = TruthyStr(args.file)
       THEN /\ stderr' = Append(stderr, UsageMsg)
            /\ systemExit' = Some(EXIT_USAGE)
            /\ pc' = "exited"
       ELSE /\ pc' = "env"
            /\ UNCHANGED <<stderr, systemExit>>
    /\ UNCHANGED <<inputs, env, command, child, childCode, signalled,
                   timerFired, expired, calls, result>>

\* Lines 68-69: parser.error writes the message and raises SystemExit(2).
Validate ==
    /\ pc = "validate"
    /\ IF ~TruthyStr(args.command) /\ ~TruthyStr(args.file)
       THEN /\ stderr' = Append(stderr, UsageMsg)
            /\ systemExit' = Some(EXIT_USAGE)
            /\ pc' = "exited"
       ELSE /\ pc' = "env"
            /\ UNCHANGED <<stderr, systemExit>>
    /\ UNCHANGED <<inputs, env, command, child, childCode, signalled,
                   timerFired, expired, calls, result>>

\* Lines 71-73: a copy of the environment, PGPASSWORD overridden.
BuildEnv ==
    /\ pc = "env"
    /\ env' = IF TruthyStr(args.password)
              THEN {e \in environ : e[1] # "PGPASSWORD"}
                     \cup {<<"PGPASSWORD", args.password[1]>>}
              ELSE environ
    /\ pc' = "build"
    /\ UNCHANGED <<inputs, command, child, childCode, signalled, timerFired,
                   expired, calls, stderr, result, systemExit>>

\* Lines 75-78: the vector, then the pager argument.
BuildCommand ==
    /\ pc = "build"
    /\ command' = build_psql_command(args)
                    \o (IF args.no_pager THEN <<"-P", "pager=off">> ELSE <<>>)
    /\ pc' = "spawn"
    /\ UNCHANGED <<inputs, env, child, childCode, signalled, timerFired,
                   expired, calls, stderr, result, systemExit>>

\* Lines 80-84 with the FileNotFoundError swallowed: main goes on to wait.
Spawn_IgnoresMissing ==
    /\ pc = "spawn"
    /\ calls' = Append(calls, "Popen")
    /\ child' = IF psqlOnPath THEN "running" ELSE "none"
    /\ pc' = "wait"
    /\ UNCHANGED <<inputs, env, command, childCode, signalled, timerFired,
                   expired, stderr, result, systemExit>>

\* Lines 80-84: Popen starts the child, or raises FileNotFoundError.
Spawn ==
    /\ pc = "spawn"
    /\ calls' = Append(calls, "Popen")
    /\ IF psqlOnPath
       THEN /\ child' = "running"
            /\ pc' = "wait"
            /\ UNCHANGED <<stderr, result>>
       ELSE /\ stderr' = Append(stderr, NotFoundMsg)
            /\ result' = Some(EXIT_NOT_FOUND)
            /\ pc' = "done"
            /\ UNCHANGED child
    /\ UNCHANGED <<inputs, env, command, childCode, signalled, timerFired,
                   expired, systemExit>>

\* Line 87, the call: the deadline is timeout seconds away (passed at once
\* when timeout is not positive).
WaitCall ==
    /\ pc = "wait"
    /\ calls' = Append(calls, "wait")
    /\ timerFired' = (args.timeout <= 0)
    /\ pc' = "waiting"
    /\ UNCHANGED <<inputs, env, command, child, childCode, signalled,
                   expired, stderr, result, systemExit>>

\* Lines 87 and 93 with a failure of the client reported as 1.
WaitReturn_Masks ==
    /\ pc = "waiting"
    /\ child = "zombie"
    /\ child' = "reaped"
    /\ result' = IF childCode[1] = 0 THEN Some(0) ELSE Some(1)
    /\ pc' = "done"
    /\ UNCHANGED <<inputs, env, command, childCode, signalled, timerFired,
                   expired, calls, stderr, systemExit>>

\* Lines 87 and 93: wait finds the child exited, collects its status and main
\* returns it.  wait looks for the exit before it looks at the clock.
WaitReturn ==
    /\ pc = "waiting"
    /\ child = "zombie"
    /\ child' = "reaped"
    /\ result' = childCode
    /\ pc' = "done"
    /\ UNCHANGED <<inputs, env, command, childCode, signalled, timerFired,
                   expired, calls, stderr, systemExit>>

\* Line 87 as a wait without a deadline: it never raises.
WaitTimeout_NoDeadline ==
    /\ FALSE
    /\ UNCHANGED vars

\* Lines 87-88: the deadline has passed with the child still running, wait
\* raises TimeoutExpired.
WaitTimeout ==
    /\ pc = "waiting"
    /\ child = "running"
    /\ timerFired
    /\ expired' = TRUE
    /\ pc' = "kill"
    /\ UNCHANGED <<inputs, env, command, child, childCode, signalled,
                   timerFired, calls, stderr, result, systemExit>>

\* Line 89 as process.terminate(): the cooperative signal.
Kill_Terminate ==
    /\ pc = "kill"
    /\ calls' = Append(calls, "terminate")
    /\ IF child = "zombie"
       THEN child' = "reaped" /\ UNCHANGED signalled
       ELSE signalled' = "SIGTERM" /\ UNCHANGED child
    /\ pc' = "report"
    /\ UNCHANGED <<inputs, env, command, childCode, timerFired, expired,
                   stderr, result, systemExit>>

\* Line 89: process.kill() polls the child; one that has exited meanwhile is
\* collected and no signal is sent, one still running is sent SIGKILL.
Kill ==
    /\ pc = "kill"
    /\ calls' = Append(calls, "kill")
    /\ IF child = "zombie"
       THEN child' = "reaped" /\ UNCHANGED signalled
       ELSE signalled' = "SIGKILL" /\ UNCHANGED child
    /\ pc' = "report"
    /\ UNCHANGED <<inputs, env, command, childCode, timerFired, expired,
                   stderr, result, systemExit>>

\* Lines 90-91 returning the generic failure code 1.
ReportTimeout_Generic ==
    /\ pc = "report"
    /\ stderr' = Append(stderr, TimeoutMsg(args.timeout))
    /\ result' = Some(1)
    /\ pc' = "done"
    /\ UNCHANGED <<inputs, env, command, child, childCode, signalled,
                   timerFired, expired, calls, systemExit>>

\* Lines 90-91: the message, then the sentinel.
ReportTimeout ==
    /\ pc = "report"
    /\ stderr' = Append(stderr, TimeoutMsg(args.timeout))
    /\ result' = Some(EXIT_TIMEOUT)
    /\ pc' = "done"
    /\ UNCHANGED <<inputs, env, command, child, childCode, signalled,
                   timerFired, expired, calls, systemExit>>

(***************************************************************************)
(* The operating system: the clock and the child.                          *)
(***************************************************************************)
\* The deadline of the wait in progress passes.
TimerFire ==
    /\ pc = "waiting"
    /\ ~timerFired
    /\ timerFired' = TRUE
    /\ UNCHANGED <<inputs, pc, env, command, child, childCode, signalled,
                   expired, calls, stderr, result, systemExit>>

\* The child exits by itself, while main waits or between the TimeoutExpired
\* and the kill.
ChildExit ==
    /\ child = "running"
    /\ signalled = "none"
    /\ pc \in {"wait", "waiting", "kill"}
    /\ \E code \in ChildCodes : childCode' = Some(code)
    /\ child' = "zombie"
    /\ UNCHANGED <<inputs, pc, env, command, signalled, timerFired, expired,
                   calls, stderr, result, systemExit>>

\* SIGKILL ends the child, some time after it was sent.
ChildDie ==
    /\ child = "running"
    /\ signalled = "SIGKILL"
    /\ childCode' = Some(KILLED_RETURNCODE)
    /\ child' = "zombie"
    /\ UNCHANGED <<inputs, pc, env, command, signalled, timerFired, expired,
                   calls, stderr, result, systemExit>>

Next ==
    \/ Validate
    \/ BuildEnv
    \/ BuildCommand
    \/ Spawn
    \/ WaitCall
    \/ WaitReturn
    \/ WaitTimeout
    \/ Kill
    \/ ReportTimeout
    \/ TimerFire
    \/ ChildExit
    \/ ChildDie

Spec == Init /\ [][Next]_vars

\* The statements of main: one thread of control, which runs on whenever it can.
Main ==
    \/ Validate
    \/ BuildEnv
    \/ BuildCommand
    \/ Spawn
    \/ WaitCall
    \/ WaitReturn
    \/ WaitTimeout
    \/ Kill
    \/ ReportTimeout

\* The runs of the supervisor that connect by fields.
FairInit == Init /\ args.dsn = None

\* main runs on and the clock runs on.  Nothing makes the child exit by
\* itself: it may hang for ever.
FairSpec ==
    /\ FairInit
    /\ [][Next]_vars
    /\ WF_vars(Main)
    /\ WF_vars(TimerFire)

\* The builder alone: main up to the launch.
BuildNext ==
    \/ Validate
    \/ BuildEnv
    \/ BuildCommand

BuildSpec == BuildInit /\ [][BuildNext]_vars

(***************************************************************************)
(* The states of section 4.3's machine, read off the run.                  *)
(***************************************************************************)
Completed == pc = "done" /\ psqlOnPath /\ ~expired
TimedOut == pc = "done" /\ expired
NotFound == pc = "done" /\ ~psqlOnPath
Terminal == Completed \/ TimedOut

Count(s, e) == Cardinality({k \in 1..Len(s) : s[k] = e})

\* The tokens between "psql -X" and the first of -v, -c, -f, -P.
ConnPart(cmd) ==
    LET stop == Find(cmd, {"-v", "-c", "-f", "-P"}, 3)
    IN SubSeq(cmd, 3, IF stop = 0 THEN Len(cmd) ELSE stop - 1)

\* The flag-value pair of a field that was given: a string field with a
\* non-empty value, the port with any number.
Pair(flag, o) == IF TruthyStr(o) THEN <<flag, o[1]>> ELSE <<>>
PairInt(flag, o) == IF o # None THEN <<flag, ToString(o[1])>> ELSE <<>>

(***************************************************************************)
(* C1.  Once wait has raised TimeoutExpired, main calls kill (SIGKILL to   *)
(* a child that is still running; a child found exited by the kill's own   *)
(* poll is collected instead), and only then writes the message naming     *)
(* args.timeout and returns 124: a run that ended in TimedOut made the     *)
(* calls Popen, wait, kill in that order before main returned.             *)
(***************************************************************************)
C1_TimeoutKillsThenReturns124 ==
    /\ expired => pc \in {"kill", "report", "done"}
    /\ (expired /\ pc \in {"report", "done"}) =>
          /\ calls = <<"Popen", "wait", "kill">>
          /\ signalled = "SIGKILL" \/ child = "reaped"
    /\ (expired /\ pc \in {"kill", "report"}) => result = None /\ stderr = <<>>
    /\ TimedOut =>
          /\ result = Some(EXIT_TIMEOUT)
          /\ stderr = <<TimeoutMsg(args.timeout)>>

C1_Witness ==
    /\ TimedOut
    /\ signalled = "SIGKILL"
    /\ result = Some(EXIT_TIMEOUT)
    /\ stderr = <<"psql command timed out after 1 seconds">>

(***************************************************************************)
(* C2.  When wait returns because the child exited, main's result is the   *)
(* child's exit code, whatever it is, and main has sent the child no       *)
(* signal and made no kill call.                                           *)
(***************************************************************************)
C2_ExitCodePassedThrough ==
    Completed =>
       /\ childCode # None
       /\ result = childCode
       /\ signalled = "none"
       /\ calls = <<"Popen", "wait">>
       /\ stderr = <<>>

C2_Witness == Completed /\ childCode = Some(3) /\ result = Some(3)

(***************************************************************************)
(* C3.  When psql cannot be located, no child exists at any time, wait is  *)
(* never called, the timeout path is never entered, and main returns 127   *)
(* straight from the failed launch.                                        *)
(***************************************************************************)
C3_NotFoundReturns127 ==
    ~psqlOnPath =>
       /\ child = "none"
       /\ Count(calls, "wait") = 0
       /\ Count(calls, "kill") = 0
       /\ ~expired
       /\ ~timerFired
       /\ pc \in {"validate", "env", "build", "spawn", "done", "exited"}
       /\ result # Some(EXIT_TIMEOUT)
       /\ pc = "done" =>
             /\ result = Some(EXIT_NOT_FOUND)
             /\ calls = <<"Popen">>
             /\ stderr = <<NotFoundMsg>>

C3_Witness == NotFound /\ result = Some(EXIT_NOT_FOUND) /\ calls = <<"Popen">>

(***************************************************************************)
(* C4.  Under FairSpec (main keeps running, the deadline eventually        *)
(* passes, the child need never exit): once a child is launched the run    *)
(* eventually is Completed or TimedOut; a terminal state is never left;    *)
(* and a run launches at most once and waits at most once.                 *)
(***************************************************************************)
C4_LaunchedRunTerminates ==
    /\ (child # "none") ~> Terminal
    /\ [][Terminal => Terminal']_vars
    /\ [](Count(calls, "Popen") <= 1 /\ Count(calls, "wait") <= 1)

\* A child that never exited by itself, and the run is over.
C4_Witness ==
    /\ TimedOut
    /\ args.timeout = DEFAULT_TIMEOUT
    /\ childCode \in {None, Some(KILLED_RETURNCODE)}

(***************************************************************************)
(* C5.  When main returns on the timeout path (of a positive timeout), the *)
(* child has exited and its exit has been collected by the supervisor.     *)
(***************************************************************************)
C5_ReapedBeforeReturn == (TimedOut /\ args.timeout > 0) => child = "reaped"

(***************************************************************************)
(* C6.  With neither --command nor --file given (or given empty), the run ends in the usage *)
(* error (SystemExit 2 and the message) straight from validation: no       *)
(* environment and no argument vector is built and nothing is launched.    *)
(***************************************************************************)
C6_NeitherSourceIsUsageError ==
    (~TruthyStr(args.command) /\ ~TruthyStr(args.file)) =>
       /\ pc \in {"validate", "exited"}
       /\ child = "none"
       /\ calls = <<>>
       /\ env = {}
       /\ command = <<>>
       /\ result = None
       /\ pc = "exited" => systemExit = Some(EXIT_USAGE) /\ stderr = <<UsageMsg>>

C6_Witness ==
    /\ args.command = None
    /\ args.file = None
    /\ pc = "exited"
    /\ systemExit = Some(EXIT_USAGE)

(***************************************************************************)
(* C7, as claimed.  With both --command and --file given (non-empty), the  *)
(* run ends in a usage error with a non-zero status and no child is        *)
(* started.                                                                *)
(***************************************************************************)
C7_BothSourcesIsUsageError ==
    (TruthyStr(args.command) /\ TruthyStr(args.file)) =>
       /\ pc \in {"validate", "exited"}
       /\ child = "none"
       /\ calls = <<>>
       /\ pc = "exited" => systemExit # None /\ systemExit[1] # 0

(***************************************************************************)
(* C7, amended.  The usage error is raised only when neither --command nor *)
(* --file has a non-empty value.  With both given non-empty there is no    *)
(* usage error: validation passes and the vector built ends, before the    *)
(* pager argument, with -c <command>; the file is ignored.                 *)
(***************************************************************************)
C7_BothSourcesCommandWins ==
    /\ pc = "exited" => ~TruthyStr(args.command) /\ ~TruthyStr(args.file)
    /\ (TruthyStr(args.command) /\ TruthyStr(args.file)) =>
          /\ systemExit = None
          /\ Count(stderr, UsageMsg) = 0
          /\ pc \notin {"validate", "env", "build"} =>
                LET n == Len(command) - (IF args.no_pager THEN 2 ELSE 0)
                IN /\ n >= 4
                   /\ command[n - 1] = "-c"
                   /\ command[n] = args.command[1]

C7_Witness ==
    /\ TruthyStr(args.command)
    /\ TruthyStr(args.file)
    /\ child = "running"
    /\ Count(command, "-c") = 1
    /\ Count(command, "-f") = 0

(***************************************************************************)
(* C8.  For a non-empty connection string, the connection part of the      *)
(* vector built is exactly one token: a string whose query is empty and    *)
(* whose scheme, authority, path and fragment are those of the connection  *)
(* string; no -h, -p, -U or -d pair is in it.                              *)
(***************************************************************************)
C8_DsnIsTheOnlyConnectionToken ==
    (pc = "spawn" /\ TruthySeq(args.dsn)) =>
       LET t == sanitize_dsn(args.dsn)[1]
       IN /\ ConnPart(command) = <<Join(t)>>
          /\ urlsplit(t) = [urlsplit(args.dsn[1]) EXCEPT !.query = <<>>]

(***************************************************************************)
(* C10.  With no connection string, the vector is psql -X, then the pair   *)
(* of each field that was given in the order -h, -p, -U, -d, then          *)
(* -v ON_ERROR_STOP=1 if asked for, then -c <command> (if a command was    *)
(* given) or else -f <file>, then the pager argument if asked for.  An     *)
(* empty string counts as not given.                                       *)
(***************************************************************************)
C10_FieldPairsInOrder ==
    (pc = "spawn" /\ args.dsn = None) =>
       command = <<"psql", "-X">>
                   \o Pair("-h", args.host)
                   \o PairInt("-p", args.port)
                   \o Pair("-U", args.username)
                   \o Pair("-d", args.database)
                   \o (IF args.on_error_stop THEN <<"-v", "ON_ERROR_STOP=1">> ELSE <<>>)
                   \o (IF TruthyStr(args.command) THEN <<"-c", args.command[1]>>
                       ELSE <<"-f", args.file[1]>>)
                   \o (IF args.no_pager THEN <<"-P", "pager=off">> ELSE <<>>)

(***************************************************************************)
(* C9, as claimed.  A result of 124 means the timeout elapsed and the      *)
(* child was killed, a result of 127 means psql was not found, and a run   *)
(* whose child exited by itself within the timeout yields neither.         *)
(***************************************************************************)
C9_ResultCodeIdentifiesOutcome ==
    pc = "done" =>
       /\ result = Some(EXIT_TIMEOUT) => TimedOut /\ Count(calls, "kill") = 1
       /\ result = Some(EXIT_NOT_FOUND) => NotFound
       /\ Completed => result \notin {Some(EXIT_TIMEOUT), Some(EXIT_NOT_FOUND)}

(***************************************************************************)
(* C9, amended.  Every run that timed out returns 124 and every run that   *)
(* did not find psql returns 127; a run whose child exited by itself       *)
(* within the timeout returns 124 or 127 only when that is the child's own *)
(* exit code.                                                              *)
(***************************************************************************)
C9_SentinelsUnlessChildsOwnCode ==
    pc = "done" =>
       /\ TimedOut => result = Some(EXIT_TIMEOUT) /\ Count(calls, "kill") = 1
       /\ NotFound => result = Some(EXIT_NOT_FOUND)
       /\ result = Some(EXIT_TIMEOUT) =>
             TimedOut \/ (Completed /\ childCode = Some(EXIT_TIMEOUT))
       /\ result = Some(EXIT_NOT_FOUND) =>
             NotFound \/ (Completed /\ childCode = Some(EXIT_NOT_FOUND))

C9_Witness ==
    /\ Completed
    /\ childCode = Some(EXIT_TIMEOUT)
    /\ result = Some(EXIT_TIMEOUT)
    /\ Count(calls, "kill") = 0

=============================================================================
